---- MODULE Spec2Model ----
(***************************************************************************)
(* MAUDE Binary Columns Automator (src/maude_binary_automator.py).         *)
(*                                                                         *)
(* Text (cell values, column names) is a sequence of code points, so that  *)
(* str.replace, str.startswith, the substring test and sorted() are        *)
(* computed as Python computes them.  A file path is a sequence of tokens: *)
(* a name fragment, the literal ".xlsx", another spelling of the extension *)
(* (".XLSX"), or the text "_backup_<timestamp>" the program inserts.       *)
(***************************************************************************)
EXTENDS Integers, Sequences, FiniteSets, TLC

\* ------------------------------------------------------------------ bounds
MaxRows == 2
MaxLen == 2
MaxPathLen == 3
MaxFiles == 2
MaxTime == 2
MaxFaults == 1
MaxRuns == 2
MaxExtra == 1

\* ------------------------------------------------------- characters, text
SPACE == 32
LPAREN == 40
RPAREN == 41
COMMA == 44
SLASH == 47
UNDERSCORE == 95

DeviceProblem == <<68,101,118,105,99,101,32,80,114,111,98,108,101,109>>
PatientProblem == <<80,97,116,105,101,110,116,32,80,114,111,98,108,101,109>>
PatientOutcome == <<80,97,116,105,101,110,116,32,79,117,116,99,111,109,101>>
DevicePrefix == <<68,101,118,105,99,101,95>>
PatientPrefix == <<80,97,116,105,101,110,116,95>>
OutcomePrefix == <<79,117,116,99,111,109,101,95>>

Categories == {"device", "patient_problem", "patient_outcome"}

Pattern(cat) ==
  CASE cat = "device" -> DeviceProblem
    [] cat = "patient_problem" -> PatientProblem
    [] cat = "patient_outcome" -> PatientOutcome

Prefix(cat) ==
  CASE cat = "device" -> DevicePrefix
    [] cat = "patient_problem" -> PatientPrefix
    [] cat = "patient_outcome" -> OutcomePrefix

\* s.startswith(p)
StartsWith(s, p) == Len(s) >= Len(p) /\ SubSeq(s, 1, Len(p)) = p

\* sub in s
Contains(s, sub) ==
  \E i \in 0..(Len(s) - Len(sub)) : SubSeq(s, i + 1, i + Len(sub)) = sub

\* s.replace(old, new) for a one-character old
RECURSIVE Replace(_, _, _)
Replace(s, old, new) ==
  IF s = <<>> THEN <<>>
  ELSE (IF Head(s) = old THEN new ELSE <<Head(s)>>) \o Replace(Tail(s), old, new)

\* the str ordering sorted() uses: code point by code point, a prefix first
RECURSIVE StrLess(_, _)
StrLess(a, b) ==
  IF b = <<>> THEN FALSE
  ELSE IF a = <<>> THEN TRUE
  ELSE IF Head(a) # Head(b) THEN Head(a) < Head(b)
  ELSE StrLess(Tail(a), Tail(b))

\* sorted(list(S)) for a set of str
RECURSIVE SortedStrs(_)
SortedStrs(S) ==
  IF S = {} THEN <<>>
  ELSE LET m == CHOOSE x \in S : \A y \in S \ {x} : StrLess(x, y)
       IN  <<m>> \o SortedStrs(S \ {m})

\* problem.replace(' ', '_').replace(',', '').replace('(', '').replace(')', '').replace('/', '_')
Sanitize(v) ==
  Replace(Replace(Replace(Replace(Replace(v, SPACE, <<UNDERSCORE>>),
                                  COMMA, <<>>), LPAREN, <<>>), RPAREN, <<>>),
          SLASH, <<UNDERSCORE>>)

\* f"Device_{...}", f"Patient_{...}", f"Outcome_{...}"
ColName(cat, v) == Prefix(cat) \o Sanitize(v)

\* ------------------------------------------------------------------ cells
NaN == [t |-> "nan", s |-> <<>>, n |-> 0]
Str(s) == [t |-> "str", s |-> s, n |-> 0]
Num(n) == [t |-> "num", s |-> <<>>, n |-> n]

SeqToSet(q) == {q[i] : i \in 1..Len(q)}

\* ------------------------------------------------------------- DataFrame
\* df = pd.read_excel(file_path, sheet_name='Events'): the header row and the
\* data rows of the Events sheet
ReadExcel(file) == [columns |-> file.columns, rows |-> file.rows]

ColIndex(df, name) == CHOOSE i \in 1..Len(df.columns) : df.columns[i] = name

\* [col for col in df.columns if pattern in col]
MatchingCols(df, pattern) ==
  SelectSeq(df.columns, LAMBDA col : Contains(col, pattern))

\* the set built by unique_values.update(df[col].dropna().unique())
UniqueCells(df, pattern) ==
  {df.rows[r][ColIndex(df, c)] :
      r \in 1..Len(df.rows), c \in SeqToSet(MatchingCols(df, pattern))} \ {NaN}

\* sorted() of a set holding a number and a str raises TypeError, and
\* problem.replace raises AttributeError on a number
RaisesOnValues(df) ==
  \E cat \in Categories : \E x \in UniqueCells(df, Pattern(cat)) : x.t # "str"

\* get_unique_values(df, [pattern]): (sorted values, matching columns)
get_unique_values(df, pattern) ==
  [values |-> SortedStrs({x.s : x \in UniqueCells(df, pattern)}),
   cols |-> MatchingCols(df, pattern)]

IsSourceColumn(c) ==
  Contains(c, DeviceProblem) \/ Contains(c, PatientProblem) \/ Contains(c, PatientOutcome)

HasIndicatorPrefixAlt(col) == StartsWith(col, PatientPrefix) \/ StartsWith(col, OutcomePrefix)
HasIndicatorPrefix(col) ==
  StartsWith(col, DevicePrefix) \/ StartsWith(col, PatientPrefix) \/ StartsWith(col, OutcomePrefix)

check_existing_none(df) == <<>>
check_existing_binary_columns(df) ==
  SelectSeq(df.columns, LAMBDA col : HasIndicatorPrefix(col) /\ ~IsSourceColumn(col))

\* df[cols].eq(value).any(axis=1).astype(int)
AnyEq(df, cols, value) ==
  [r \in 1..Len(df.rows) |->
     IF \E c \in SeqToSet(cols) : df.rows[r][ColIndex(df, c)] = Str(value) THEN 1 ELSE 0]

\* binary_data[col_name] = data on a dict that keeps insertion order
DictSetKeepFirst(d, k, v) ==
  IF \E i \in 1..Len(d) : d[i].name = k THEN d ELSE Append(d, [name |-> k, data |-> v])
DictSet(d, k, v) ==
  IF \E i \in 1..Len(d) : d[i].name = k
  THEN [i \in 1..Len(d) |-> IF d[i].name = k THEN [name |-> k, data |-> v] ELSE d[i]]
  ELSE Append(d, [name |-> k, data |-> v])

\* one of the three loops of create_binary_columns
RECURSIVE AddCategory(_, _, _, _, _, _)
AddCategory(d, df, values, cat, cols, existing) ==
  IF values = <<>> THEN d
  ELSE LET v == Head(values)
           col_name == ColName(cat, v)
           d2 == IF col_name \notin SeqToSet(existing)
                 THEN DictSet(d, col_name, AnyEq(df, cols, v))
                 ELSE d
       IN  AddCategory(d2, df, Tail(values), cat, cols, existing)

create_binary_columns(df, existing) ==
  LET dv == get_unique_values(df, DeviceProblem)
      pv == get_unique_values(df, PatientProblem)
      ov == get_unique_values(df, PatientOutcome)
      d1 == AddCategory(<<>>, df, dv.values, "device", dv.cols, existing)
      d2 == AddCategory(d1, df, pv.values, "patient_problem", pv.cols, existing)
  IN  AddCategory(d2, df, ov.values, "patient_outcome", ov.cols, existing)

\* pd.concat([df, pd.DataFrame(binary_data)], axis=1)
Concat(df, binary_data) ==
  [columns |-> df.columns \o [i \in 1..Len(binary_data) |-> binary_data[i].name],
   rows |-> [r \in 1..Len(df.rows) |->
               df.rows[r] \o [i \in 1..Len(binary_data) |-> Num(binary_data[i].data[r])]]]

\* ---------------------------------------------------------------- styles
DefaultStyle ==
  [font |-> "default", fill |-> "none", alignment |-> "default",
   border |-> "none", number_format |-> "General"]
GreenFill == "90EE90"
RedFill == "FFB6C1"

Grid(rows, cols) == (1..rows) \X (1..cols)

\* capture_original_styling: the style record of every cell of
\* 1..max_row x 1..max_column, keyed by (row, col)
capture_original_styling(ws) ==
  [p \in Grid(ws.max_row, ws.max_column) |-> ws.style[p]]

\* ws.delete_rows(1, ws.max_row); ws.delete_cols(1, ws.max_column); then
\* ws.append(r) for the header and every row: new cells, default style
WriteRows(ws, dfb) ==
  [ws EXCEPT !.columns = dfb.columns,
             !.rows = dfb.rows,
             !.max_row = Len(dfb.rows) + 1,
             !.max_column = Len(dfb.columns),
             !.style = [p \in Grid(Len(dfb.rows) + 1, Len(dfb.columns)) |-> DefaultStyle]]

RestoredStyle(ws, original_styles, original_col_count, p) ==
  IF p[2] <= original_col_count /\ p \in DOMAIN original_styles
  THEN original_styles[p]
  ELSE ws.style[p]

restore_original_formatting(ws, original_styles, original_col_count) ==
  [ws EXCEPT !.style = [p \in Grid(ws.max_row, ws.max_column) |->
                          RestoredStyle(ws, original_styles, original_col_count, p)]]

\* the value of the cell ws.cell(row, column)
CellValue(ws, row, col) ==
  IF row = 1 THEN Str(ws.columns[col]) ELSE ws.rows[row - 1][col]

BinaryStyleSwapped(ws, n_rows, first, last, p) ==
  IF p[2] < first \/ p[2] > last THEN ws.style[p]
  ELSE IF p[1] = 1 THEN [ws.style[p] EXCEPT !.font = "bold"]
  ELSE IF p[1] > n_rows + 1 THEN ws.style[p]
  ELSE IF CellValue(ws, p[1], p[2]) = Num(1) THEN [ws.style[p] EXCEPT !.fill = RedFill]
  ELSE IF CellValue(ws, p[1], p[2]) = Num(0) THEN [ws.style[p] EXCEPT !.fill = GreenFill]
  ELSE ws.style[p]
\* the style apply_binary_formatting leaves on cell p, the binary columns
\* being first..last: Font(bold=True) on the header, a fill on 1 and on 0
BinaryStyle(ws, n_rows, first, last, p) ==
  IF p[2] < first \/ p[2] > last THEN ws.style[p]
  ELSE IF p[1] = 1 THEN [ws.style[p] EXCEPT !.font = "bold"]
  ELSE IF p[1] > n_rows + 1 THEN ws.style[p]
  ELSE IF CellValue(ws, p[1], p[2]) = Num(1) THEN [ws.style[p] EXCEPT !.fill = GreenFill]
  ELSE IF CellValue(ws, p[1], p[2]) = Num(0) THEN [ws.style[p] EXCEPT !.fill = RedFill]
  ELSE ws.style[p]

apply_binary_formatting(ws, df_with_binary, original_col_count, binary_data) ==
  [ws EXCEPT !.style = [p \in Grid(ws.max_row, ws.max_column) |->
                          BinaryStyle(ws, Len(df_with_binary.rows), original_col_count + 1,
                                      original_col_count + Len(binary_data), p)]]

\* ----------------------------------------------------------------- paths
Name(s) == [s |-> s, n |-> 0]
XLSX == [s |-> ".xlsx", n |-> 0]
XLSX_UPPER == [s |-> ".XLSX", n |-> 0]
\* f'_backup_{timestamp}'
Stamp(ts) == [s |-> "_backup_", n |-> ts]

\* file_path.lower().endswith('.xlsx')
IsExcelPath(path) == path # <<>> /\ path[Len(path)] \in {XLSX, XLSX_UPPER}

\* file_path.replace('.xlsx', f'_backup_{timestamp}.xlsx')
BackupPath(path, ts) == Replace(path, XLSX, <<Stamp(ts), XLSX>>)

\* "MAUDE" in f.upper()
Upper(tok) == IF tok.s = "maude" THEN "MAUDE" ELSE tok.s
HasMarker(path) == \E i \in 1..Len(path) : Upper(path[i]) = "MAUDE"

\* glob.glob("*.xlsx"): the pattern is matched after os.path.normcase, which
\* folds case on a case-insensitive platform
GlobMatches(path, ignore_case) ==
  path # <<>> /\ (path[Len(path)] = XLSX \/ (ignore_case /\ path[Len(path)] = XLSX_UPPER))

\* ----------------------------------------------------------------- files
\* what is on disk at a path: a workbook, or bytes that are no workbook
Corrupt ==
  [ok |-> FALSE, events |-> FALSE, columns |-> <<>>, rows |-> <<>>,
   max_row |-> 0, max_column |-> 0, style |-> <<>>]

\* validate_maude_file
validate_maude_file(fs, path) ==
  IF path \notin DOMAIN fs THEN "not_found"
  ELSE IF ~IsExcelPath(path) THEN "not_excel"
  ELSE IF ~fs[path].ok THEN "error"
  ELSE IF ~fs[path].events THEN "no_sheet"
  ELSE IF \A i \in 1..Len(fs[path].columns) : ~IsSourceColumn(fs[path].columns[i])
       THEN "no_columns"
  ELSE "ok"

\* book.save(path)
Save(fs, path, wb) == [q \in DOMAIN fs \cup {path} |-> IF q = path THEN wb ELSE fs[q]]

Perms(S) ==
  {q \in [1..Cardinality(S) -> S] : \A i, j \in 1..Cardinality(S) : i # j => q[i] # q[j]}

VARIABLES
  disk,              \* the file system: path -> content
  argv,              \* sys.argv[1:]
  globIgnoresCase,   \* the platform's glob folds case
  now,               \* datetime.now(), in seconds
  faults,            \* I/O errors the environment still raises on a save
  runsLeft,          \* invocations of the script still to come
  mpc,               \* main: "start", "loop", "done"
  files_to_process, idx, successful,
  report,            \* what main printed last: nothing, an error, the summary
  pc,                \* process_maude_file: "idle", "save_backup", "save_orig"
  file_path, df, original_styles, binary_data, book, backup_path,
  attempts,          \* the paths process_maude_file was called with, in order
  outcomes,          \* what each call printed and returned
  produced           \* the paths whose content a completed book.save wrote

vars == <<disk, argv, globIgnoresCase, now, faults, runsLeft, mpc, files_to_process,
          idx, successful, report, pc, file_path, df, original_styles, binary_data,
          book, backup_path, attempts, outcomes, produced>>

env == <<argv, globIgnoresCase>>
locals == <<file_path, df, original_styles, binary_data, book, backup_path>>

NoReport == [kind |-> "none", processed |-> 0, successful |-> 0, failed |-> 0]
EmptyFrame == [columns |-> <<>>, rows |-> <<>>]

\* ------------------------------------------------------------------ main
\* find_maude_files
find_maude_files(fs, ignore_case) ==
  {f \in DOMAIN fs : GlobMatches(f, ignore_case) /\ HasMarker(f)}

\* lines 299-303: the argument names no file
MainFileNotFound ==
  /\ mpc = "start" /\ argv # <<>> /\ argv[1] \notin DOMAIN disk
  /\ report' = [NoReport EXCEPT !.kind = "file_not_found"]
  /\ mpc' = "done"
  /\ UNCHANGED <<disk, env, now, faults, runsLeft, files_to_process, idx, successful,
                 pc, locals, attempts, outcomes, produced>>

\* lines 299-304
MainArgument ==
  /\ mpc = "start" /\ argv # <<>> /\ argv[1] \in DOMAIN disk
  /\ files_to_process' = <<argv[1]>>
  /\ idx' = 1 /\ successful' = 0 /\ mpc' = "loop"
  /\ UNCHANGED <<disk, env, now, faults, runsLeft, report, pc, locals, attempts,
                 outcomes, produced>>

\* lines 306-311
MainNoFiles ==
  /\ mpc = "start" /\ argv = <<>> /\ find_maude_files(disk, globIgnoresCase) = {}
  /\ report' = [NoReport EXCEPT !.kind = "no_files"]
  /\ mpc' = "done"
  /\ UNCHANGED <<disk, env, now, faults, runsLeft, files_to_process, idx, successful,
                 pc, locals, attempts, outcomes, produced>>

\* lines 306-313: glob lists the directory in no particular order
MainDiscover ==
  /\ mpc = "start" /\ argv = <<>> /\ find_maude_files(disk, globIgnoresCase) # {}
  /\ \E order \in Perms(find_maude_files(disk, globIgnoresCase)) :
        files_to_process' = order
  /\ idx' = 1 /\ successful' = 0 /\ mpc' = "loop"
  /\ UNCHANGED <<disk, env, now, faults, runsLeft, report, pc, locals, attempts,
                 outcomes, produced>>

\* for file_path in files_to_process: the index after a call that returned ok
AfterFileStopOnFailure(i, ok) == IF ok THEN i + 1 ELSE Len(files_to_process) + 1
AfterFile(i, ok) == i + 1

\* if process_maude_file(file_path): successful += 1
Count(n, ok) == IF ok THEN n + 1 ELSE n

\* process_maude_file(files_to_process[idx]) returns: what it printed, its result
Return(msg, ok) ==
  /\ outcomes' = Append(outcomes, msg)
  /\ successful' = Count(successful, ok)
  /\ idx' = AfterFile(idx, ok)
  /\ pc' = "idle"

Calling == mpc = "loop" /\ pc = "idle" /\ idx <= Len(files_to_process)
Current == files_to_process[idx]

\* lines 195-198
ProcessInvalid ==
  /\ Calling
  /\ validate_maude_file(disk, Current) # "ok"
  /\ file_path' = Current
  /\ attempts' = Append(attempts, Current)
  /\ Return(validate_maude_file(disk, Current), FALSE)
  /\ UNCHANGED <<disk, env, now, faults, runsLeft, mpc, files_to_process, report,
                 df, original_styles, binary_data, book, backup_path, produced>>

\* lines 204-218, 237 under the except of line 289
ProcessError ==
  /\ Calling
  /\ validate_maude_file(disk, Current) = "ok"
  /\ RaisesOnValues(ReadExcel(disk[Current]))
  /\ file_path' = Current
  /\ df' = ReadExcel(disk[Current])
  /\ book' = disk[Current]
  /\ original_styles' = capture_original_styling(disk[Current])
  /\ attempts' = Append(attempts, Current)
  /\ Return("error", FALSE)
  /\ UNCHANGED <<disk, env, now, faults, runsLeft, mpc, files_to_process, report,
                 binary_data, backup_path, produced>>

NoValues(d) ==
  /\ get_unique_values(d, DeviceProblem).values = <<>>
  /\ get_unique_values(d, PatientProblem).values = <<>>
  /\ get_unique_values(d, PatientOutcome).values = <<>>

\* lines 204-227
ProcessNoValues ==
  /\ Calling
  /\ validate_maude_file(disk, Current) = "ok"
  /\ ~RaisesOnValues(ReadExcel(disk[Current]))
  /\ NoValues(ReadExcel(disk[Current]))
  /\ file_path' = Current
  /\ df' = ReadExcel(disk[Current])
  /\ book' = disk[Current]
  /\ original_styles' = capture_original_styling(disk[Current])
  /\ attempts' = Append(attempts, Current)
  /\ Return("no_values", FALSE)
  /\ UNCHANGED <<disk, env, now, faults, runsLeft, mpc, files_to_process, report,
                 binary_data, backup_path, produced>>

NewColumns(d) == create_binary_columns(d, check_existing_binary_columns(d))

\* lines 204-242
ProcessNothingNew ==
  /\ Calling
  /\ validate_maude_file(disk, Current) = "ok"
  /\ ~RaisesOnValues(ReadExcel(disk[Current]))
  /\ ~NoValues(ReadExcel(disk[Current]))
  /\ NewColumns(ReadExcel(disk[Current])) = <<>>
  /\ file_path' = Current
  /\ df' = ReadExcel(disk[Current])
  /\ book' = disk[Current]
  /\ original_styles' = capture_original_styling(disk[Current])
  /\ binary_data' = <<>>
  /\ attempts' = Append(attempts, Current)
  /\ Return("nothing_new", TRUE)
  /\ UNCHANGED <<disk, env, now, faults, runsLeft, mpc, files_to_process, report,
                 backup_path, produced>>

\* lines 251-267: the sheet of the in-memory workbook, cleared, rewritten,
\* restored and colour-coded
Rewritten(ws, d, styles, bin) ==
  LET df_with_binary == Concat(d, bin)
      original_col_count == Len(d.columns)
      written == WriteRows(ws, df_with_binary)
      restored == restore_original_formatting(written, styles, original_col_count)
  IN  apply_binary_formatting(restored, df_with_binary, original_col_count, bin)

\* lines 204-272: everything up to the two saves
ProcessRewrite ==
  /\ Calling
  /\ validate_maude_file(disk, Current) = "ok"
  /\ ~RaisesOnValues(ReadExcel(disk[Current]))
  /\ ~NoValues(ReadExcel(disk[Current]))
  /\ NewColumns(ReadExcel(disk[Current])) # <<>>
  /\ file_path' = Current
  /\ df' = ReadExcel(disk[Current])
  /\ original_styles' = capture_original_styling(disk[Current])
  /\ binary_data' = NewColumns(ReadExcel(disk[Current]))
  /\ book' = Rewritten(disk[Current], ReadExcel(disk[Current]),
                       capture_original_styling(disk[Current]),
                       NewColumns(ReadExcel(disk[Current])))
  /\ \E t \in now..MaxTime :
        /\ now' = t
        /\ backup_path' = BackupPath(Current, t)
  /\ attempts' = Append(attempts, Current)
  /\ pc' = "save_backup"
  /\ UNCHANGED <<disk, env, faults, runsLeft, mpc, files_to_process, idx,
                 successful, report, outcomes, produced>>

\* line 275
SaveBackup ==
  /\ mpc = "loop" /\ pc = "save_backup"
  /\ disk' = Save(disk, backup_path, book)
  /\ produced' = produced \cup {backup_path}
  /\ pc' = "save_orig"
  /\ UNCHANGED <<env, now, faults, runsLeft, mpc, files_to_process, idx, successful,
                 report, locals, attempts, outcomes>>

\* what a save that raises leaves at the path: the file as it was, or the
\* file it had opened for writing and did not finish
FailedSave(fs, path) == {fs} \cup {Save(fs, path, Corrupt)}

\* line 275 raises: line 289
SaveBackupFails ==
  /\ mpc = "loop" /\ pc = "save_backup" /\ faults > 0
  /\ faults' = faults - 1
  /\ \E fs \in FailedSave(disk, backup_path) :
        /\ disk' = fs
        /\ produced' = IF fs = disk THEN produced ELSE produced \ {backup_path}
  /\ Return("error", FALSE)
  /\ UNCHANGED <<env, now, runsLeft, mpc, files_to_process, report, locals, attempts>>

\* lines 279-287
SaveOriginal ==
  /\ mpc = "loop" /\ pc = "save_orig"
  /\ disk' = Save(disk, file_path, book)
  /\ produced' = produced \cup {file_path}
  /\ Return("processed", TRUE)
  /\ UNCHANGED <<env, now, faults, runsLeft, mpc, files_to_process, report, locals,
                 attempts>>

\* line 279 raises: line 289
SaveOriginalFails ==
  /\ mpc = "loop" /\ pc = "save_orig" /\ faults > 0
  /\ faults' = faults - 1
  /\ \E fs \in FailedSave(disk, file_path) :
        /\ disk' = fs
        /\ produced' = IF fs = disk THEN produced ELSE produced \ {file_path}
  /\ Return("error", FALSE)
  /\ UNCHANGED <<env, now, runsLeft, mpc, files_to_process, report, locals, attempts>>

\* lines 321-326
MainSummary ==
  /\ mpc = "loop" /\ pc = "idle" /\ idx > Len(files_to_process)
  /\ report' = [kind |-> "summary", processed |-> Len(files_to_process),
                successful |-> successful,
                failed |-> Len(files_to_process) - successful]
  /\ mpc' = "done"
  /\ UNCHANGED <<disk, env, now, faults, runsLeft, files_to_process, idx, successful,
                 pc, locals, attempts, outcomes, produced>>

\* the script is invoked again, with the same arguments
Rerun ==
  /\ mpc = "done" /\ runsLeft > 0
  /\ runsLeft' = runsLeft - 1
  /\ mpc' = "start"
  /\ files_to_process' = <<>> /\ idx' = 1 /\ successful' = 0
  /\ report' = NoReport
  /\ attempts' = <<>> /\ outcomes' = <<>>
  /\ UNCHANGED <<disk, env, now, faults, pc, locals, produced>>

Next ==
  \/ MainFileNotFound \/ MainArgument \/ MainNoFiles \/ MainDiscover
  \/ ProcessInvalid \/ ProcessError \/ ProcessNoValues \/ ProcessNothingNew
  \/ ProcessRewrite \/ SaveBackup \/ SaveBackupFails \/ SaveOriginal
  \/ SaveOriginalFails \/ MainSummary \/ Rerun

\* ---------------------------------------------------------- initial states
\* The state before the first invocation: a directory of files, the
\* command line, the platform and the clock.
Start(fs, args, ignore_case, t, f, r) ==
  /\ disk = fs /\ argv = args /\ globIgnoresCase = ignore_case
  /\ now = t /\ faults = f /\ runsLeft = r
  /\ mpc = "start" /\ files_to_process = <<>> /\ idx = 1 /\ successful = 0
  /\ report = NoReport
  /\ pc = "idle" /\ file_path = <<>> /\ df = EmptyFrame /\ original_styles = <<>>
  /\ binary_data = <<>> /\ book = Corrupt /\ backup_path = <<>>
  /\ attempts = <<>> /\ outcomes = <<>> /\ produced = {}

\* a workbook whose Events sheet holds the header and the rows
Workbook(columns, rows, max_row, max_column, style) ==
  [ok |-> TRUE, events |-> TRUE, columns |-> columns, rows |-> rows,
   max_row |-> max_row, max_column |-> max_column, style |-> style]

\* no cell styled, no cell outside the data
Plain(columns, rows) ==
  Workbook(columns, rows, Len(rows) + 1, Len(columns),
           [p \in Grid(Len(rows) + 1, Len(columns)) |-> DefaultStyle])

ID == <<73, 68>>
DeviceProblem2 == DeviceProblem \o <<SPACE, 50>>
A_B == <<65, UNDERSCORE, 66>>
AspaceB == <<65, SPACE, 66>>
AparenB == <<65, UNDERSCORE, LPAREN, 66, RPAREN>>
AcommaB == <<65, COMMA, 66>>
PrefixedSource == DevicePrefix \o DeviceProblem

MaudeXlsx == <<Name("MAUDE"), XLSX>>
MaudeUpper == <<Name("MAUDE"), XLSX_UPPER>>
Maude2Xlsx == <<Name("maude"), XLSX>>
DataXlsx == <<Name("data"), XLSX>>

\* ---- a palette of files, one for each way process_maude_file can end
Good == Plain(<<ID, DeviceProblem>>,
              <<<<Num(0), Str(AspaceB)>>, <<Num(0), Str(AparenB)>>>>)
Three == Plain(<<DeviceProblem, PatientProblem, PatientOutcome>>,
               <<<<Str(AspaceB), Str(AcommaB), NaN>>, <<NaN, Str(AcommaB), Str(A_B)>>>>)
Covered == Plain(<<DeviceProblem, DevicePrefix \o A_B>>, <<<<Str(AspaceB), Num(1)>>>>)
Blank == Plain(<<DeviceProblem>>, <<<<NaN>>>>)
Numeric == Plain(<<DeviceProblem>>, <<<<Num(7)>>>>)
NoSheet == [Good EXCEPT !.events = FALSE]
NoColumns == Plain(<<ID>>, <<<<Num(0)>>>>)

Palette == {Good, Three, Covered, Blank, Numeric, NoSheet, NoColumns, Corrupt}

\* one file or none, named on the command line or discovered
InitCore ==
  \E args \in {<<>>, <<MaudeXlsx>>} : \E f \in {0, 1} : \E r \in {0, 1} :
    \/ Start(<<>>, args, FALSE, 1, f, r)
    \/ \E c \in Palette : Start((MaudeXlsx :> c), args, FALSE, 1, f, r)

\* ---- tables
TableHeaders ==
  { <<ID, DeviceProblem>>,
    <<DeviceProblem, DeviceProblem2>>,
    <<DeviceProblem, DevicePrefix \o A_B>>,
    <<PrefixedSource, ID>>,
    <<PatientProblem, PatientOutcome>>,
    <<PatientProblem, PatientPrefix \o A_B>>,
    <<DeviceProblem, PatientOutcome, OutcomePrefix \o A_B>> }

\* the cells a column may hold: two values that sanitize alike, or nothing,
\* in a source column; 0 in any other
TableCells(col) == IF IsSourceColumn(col) THEN {NaN, Str(AspaceB), Str(AparenB)} ELSE {Num(0)}

RowsOf(h) == {r \in [1..Len(h) -> {NaN, Str(AspaceB), Str(AparenB), Num(0)}] :
                \A i \in 1..Len(h) : r[i] \in TableCells(h[i])}

Tables(h) == UNION {[1..n -> RowsOf(h)] : n \in 0..MaxRows}

\* one file, named on the command line, any table; the script runs MaxRuns times
InitTable ==
  \E h \in TableHeaders : \E rows \in Tables(h) :
    Start((MaudeXlsx :> Plain(h, rows)), <<MaudeXlsx>>, FALSE, MaxTime, 0, MaxRuns - 1)

\* ---- values
Alphabet == {65, SPACE, UNDERSCORE, COMMA, LPAREN, SLASH}
Values == UNION {[1..n -> Alphabet] : n \in 1..MaxLen}

\* one file with one source column and two rows, holding any two values
InitValues ==
  \E v1 \in Values : \E v2 \in Values :
    /\ v1 = v2 \/ StrLess(v1, v2)
    /\ Start((MaudeXlsx :> Plain(<<DeviceProblem>>, <<<<Str(v1)>>, <<Str(v2)>>>>)),
             <<MaudeXlsx>>, FALSE, MaxTime, 0, 0)

\* ---- paths
PathTokens == {Name("MAUDE"), XLSX, XLSX_UPPER, Stamp(1)}
Paths == {q \in UNION {[1..n -> PathTokens] : n \in 2..MaxPathLen} : q[1] = Name("MAUDE")}

\* one file of any name, named on the command line or discovered, at any
\* time, with I/O errors to come or none
InitPaths ==
  \E q \in Paths : \E args \in {<<>>, <<q>>} : \E ic \in BOOLEAN :
  \E t \in 1..MaxTime : \E f \in 0..MaxFaults : \E r \in 0..(MaxRuns - 1) :
    Start((q :> Good), args, ic, t, f, r)

\* ---- batches
BatchPaths == {MaudeXlsx, MaudeUpper, Maude2Xlsx, DataXlsx}
BatchFiles == {Good, Covered, Blank, Numeric, NoSheet}
Directories ==
  UNION {[S -> BatchFiles] : S \in {T \in SUBSET BatchPaths : Cardinality(T) <= MaxFiles}}

\* a directory of up to MaxFiles files; a path on the command line or none
InitBatch ==
  \E fs \in Directories : \E args \in {<<>>, <<MaudeXlsx>>, <<DataXlsx>>} :
  \E ic \in BOOLEAN : \E f \in 0..MaxFaults :
    Start(fs, args, ic, MaxTime, f, 0)

\* ---- styled sheets
StyleA ==
  [font |-> "bold red", fill |-> "FFFF00", alignment |-> "center",
   border |-> "thin", number_format |-> "0.00"]
StyleB ==
  [font |-> "italic", fill |-> GreenFill, alignment |-> "right",
   border |-> "thick", number_format |-> "@"]

\* rows and columns formatted as a whole, as a spreadsheet user does
Styled(max_row, max_column, R, C) ==
  [p \in Grid(max_row, max_column) |->
     IF p[1] \in R THEN StyleA ELSE IF p[2] \in C THEN StyleB ELSE DefaultStyle]

StyledRows == UNION {[1..n -> {<<Num(0), Str(AspaceB)>>, <<Num(0), Str(AparenB)>>}] : n \in 1..MaxRows}

\* one file whose sheet has styled cells, some of them in up to MaxExtra
\* empty rows and columns after the data (read_excel drops trailing empty
\* rows and columns, max_row and max_column count them)
InitStyles ==
  \E rows \in StyledRows : \E er \in 0..MaxExtra : \E ec \in 0..MaxExtra :
  \E R \in SUBSET (1..(Len(rows) + 1 + er)) : \E C \in SUBSET (1..(2 + ec)) :
    Start((MaudeXlsx :>
             Workbook(<<ID, DeviceProblem>>, rows, Len(rows) + 1 + er, 2 + ec,
                      Styled(Len(rows) + 1 + er, 2 + ec, R, C))),
          <<MaudeXlsx>>, FALSE, MaxTime, 0, 0)

Init == InitCore \/ InitTable \/ InitValues \/ InitPaths \/ InitBatch \/ InitStyles

Spec == Init /\ [][Next]_vars
SpecData == (InitCore \/ InitTable \/ InitValues) /\ [][Next]_vars
SpecValues == (InitCore \/ InitValues) /\ [][Next]_vars
SpecIO == (InitCore \/ InitPaths) /\ [][Next]_vars
SpecMain == (InitCore \/ InitBatch) /\ [][Next]_vars
SpecStyle == (InitCore \/ InitStyles) /\ [][Next]_vars

\* ---------------------------------------------------------------- claims
Saving == pc \in {"save_backup", "save_orig"}
LastOutcome == IF outcomes = <<>> THEN "none" ELSE outcomes[Len(outcomes)]
\* process_maude_file has just returned True after writing the file
Processed == pc = "idle" /\ LastOutcome = "processed"
Succeeded == pc = "idle" /\ LastOutcome \in {"processed", "nothing_new"}

NoDuplicates(q) == \A i, j \in 1..Len(q) : i # j => q[i] # q[j]
ValuesOf(d, cat) == SeqToSet(get_unique_values(d, Pattern(cat)).values)
ColsOf(d, cat) == get_unique_values(d, Pattern(cat)).cols
Colliders(d, cat, name) == {v \in ValuesOf(d, cat) : ColName(cat, v) = name}
FirstOf(S) == CHOOSE x \in S : \A y \in S \ {x} : StrLess(x, y)
LastOf(S) == CHOOSE x \in S : \A y \in S \ {x} : StrLess(y, x)
Positions(q, x) == {i \in 1..Len(q) : q[i] = x}
ColumnData(sheet, i) == [r \in 1..Len(sheet.rows) |-> sheet.rows[r][i]]
Flags(d, cat, v) == [r \in 1..Len(d.rows) |-> Num(AnyEq(d, ColsOf(d, cat), v)[r])]
FirstNew == Len(df.columns) + 1
NewColumnRange == FirstNew..(Len(df.columns) + Len(binary_data))

\* C1 (as claimed): after process_maude_file succeeds, every distinct
\* non-null value v of every category has exactly one indicator column in the
\* output sheet, and that column holds 1 exactly in the rows where one of the
\* category's source columns equals v.
C1_Completeness ==
  Succeeded =>
    \A cat \in Categories : \A v \in ValuesOf(df, cat) :
      LET at == Positions(disk[file_path].columns, ColName(cat, v))
      IN  /\ Cardinality(at) = 1
          /\ \A i \in at : ColumnData(disk[file_path], i) = Flags(df, cat, v)

\* C2: no file written by a completed save gets a new indicator column when
\* the pipeline reads it again: it validates, its values are found, and
\* create_binary_columns returns the empty mapping, every sanitized name being
\* among the existing indicator columns.
C2_Idempotent ==
  \A q \in produced :
    LET d == ReadExcel(disk[q])
    IN  /\ validate_maude_file(disk, q) = "ok"
        /\ ~RaisesOnValues(d) /\ ~NoValues(d)
        /\ \A cat \in Categories : \A v \in ValuesOf(d, cat) :
             ColName(cat, v) \in SeqToSet(check_existing_binary_columns(d))
        /\ NewColumns(d) = <<>>

\* a second call on a file the first call wrote has returned "nothing new"
C2_Witness ==
  /\ pc = "idle" /\ LastOutcome = "nothing_new"
  /\ file_path \in produced
  /\ runsLeft < MaxRuns - 1
  /\ \E i \in 1..Len(disk[file_path].columns) :
        /\ HasIndicatorPrefix(disk[file_path].columns[i])
        /\ ~IsSourceColumn(disk[file_path].columns[i])

\* C5 (as amended): when several distinct values of a category sanitize to
\* the same column name, and no existing indicator column has that name,
\* create_binary_columns produces a single column of that name, and the
\* column written to the sheet holds the flags of the last of those values in
\* sorted order.  "A,B" gives Device_AB and "A B" gives Device_A_B.
C5_LastValueWins ==
  /\ ColName("device", AcommaB) = DevicePrefix \o <<65, 66>>
  /\ ColName("device", AspaceB) = DevicePrefix \o A_B
  /\ Saving =>
       \A cat \in Categories : \A v \in ValuesOf(df, cat) :
         LET name == ColName(cat, v)
             last == LastOf(Colliders(df, cat, name))
         IN  name \notin SeqToSet(check_existing_binary_columns(df)) =>
               /\ Cardinality({i \in 1..Len(binary_data) : binary_data[i].name = name}) = 1
               /\ Cardinality(Positions(book.columns, name)) = 1
               /\ \A i \in Positions(book.columns, name) :
                    ColumnData(book, i) = Flags(df, cat, last)

\* two values of a category share a column name and differ in their rows
CollisionIn(d) ==
  \E cat \in Categories : \E v1, v2 \in ValuesOf(d, cat) :
    /\ StrLess(v1, v2)
    /\ ColName(cat, v1) = ColName(cat, v2)
    /\ Flags(d, cat, v1) # Flags(d, cat, v2)
    /\ ColName(cat, v1) \notin SeqToSet(check_existing_binary_columns(d))

C5_Witness == pc = "save_orig" /\ CollisionIn(df)

\* C5 (as claimed): the second value's column is skipped, so the column
\* holds the flags of the first of the colliding values in sorted order.
C5_FirstValueWins ==
  Saving =>
    \A cat \in Categories : \A v \in ValuesOf(df, cat) :
      LET name == ColName(cat, v)
          first == FirstOf(Colliders(df, cat, name))
      IN  name \notin SeqToSet(check_existing_binary_columns(df)) =>
            \A i \in Positions(book.columns, name) :
              ColumnData(book, i) = Flags(df, cat, first)

\* C9: column names that are pairwise distinct in the sheet read are pairwise
\* distinct in the sheet written: no new indicator column has the name of a
\* column of the sheet or of another new column.
C9_UniqueColumnNames ==
  /\ Saving /\ NoDuplicates(df.columns) =>
       /\ NoDuplicates(book.columns)
       /\ \A i \in 1..Len(binary_data) :
            binary_data[i].name \notin SeqToSet(df.columns)
  /\ Processed /\ NoDuplicates(df.columns) => NoDuplicates(disk[file_path].columns)

\* a column is added to a sheet that has a column with an indicator prefix
C9_Witness ==
  /\ Processed
  /\ Len(disk[file_path].columns) > Len(df.columns)
  /\ \E i \in 1..Len(df.columns) : HasIndicatorPrefix(df.columns[i])

\* C8: in the workbook about to be saved, and in the file written, every
\* data cell of a new indicator column has the green fill iff its value is 1
\* and the red fill iff its value is 0, and the header cell of every new
\* indicator column is bold and has no fill.
ColourCoded(sheet) ==
  \A c \in NewColumnRange :
    /\ sheet.style[<<1, c>>].font = "bold"
    /\ sheet.style[<<1, c>>].fill = "none"
    /\ \A r \in 2..(Len(df.rows) + 1) :
         /\ sheet.style[<<r, c>>].fill = GreenFill <=> CellValue(sheet, r, c) = Num(1)
         /\ sheet.style[<<r, c>>].fill = RedFill <=> CellValue(sheet, r, c) = Num(0)

C8_ColourCoding ==
  /\ Saving => ColourCoded(book)
  /\ Processed => ColourCoded(disk[file_path])

\* a written sheet with a new indicator column holding a 1 and a 0
C8_Witness ==
  /\ Processed
  /\ \E c \in NewColumnRange : \E r1, r2 \in 2..(Len(df.rows) + 1) :
        /\ CellValue(disk[file_path], r1, c) = Num(1)
        /\ CellValue(disk[file_path], r2, c) = Num(0)

\* C7 (as claimed): in the workbook about to be saved, every cell position
\* captured before the clear (1..max_row x 1..max_column) has the font, fill,
\* alignment, border and number format that were captured.
C7_FormattingFidelity ==
  Saving =>
    \A p \in DOMAIN original_styles :
      p \in DOMAIN book.style /\ book.style[p] = original_styles[p]

\* the original name with _backup_<timestamp> inserted before the extension
BackupPathBeforeExt(path, ts) ==
  IF path = <<>> THEN <<>>
  ELSE SubSeq(path, 1, Len(path) - 1) \o <<Stamp(ts), path[Len(path)]>>
TimestampedPaths(path) == {BackupPathBeforeExt(path, t) : t \in 1..MaxTime}

\* C6 (as claimed): the backup path computed for a validated file is the
\* original name with _backup_<timestamp> inserted once, immediately before
\* the extension, and differs from the original path.
C6_BackupPathNaming ==
  Saving =>
    /\ backup_path \in TimestampedPaths(file_path)
    /\ backup_path # file_path

\* C3 (as claimed): whenever a step writes the original path, the modified
\* workbook is already on disk at the timestamped backup path, and when the
\* run has succeeded the backup file and the original file hold the same
\* modified workbook.
C3_BackupBeforeOverwrite ==
  [][(/\ Saving
      /\ disk'[file_path] # disk[file_path] \/ (pc' = "idle" /\ outcomes'[Len(outcomes')] = "processed"))
       => \E b \in TimestampedPaths(file_path) :
             /\ b # file_path
             /\ b \in DOMAIN disk /\ disk[b] = book
             /\ (pc' = "idle" /\ outcomes'[Len(outcomes')] = "processed"
                   => disk'[b] = book /\ disk'[file_path] = book)]_vars

\* C10 (as claimed): no step of process_maude_file before the final save,
\* failing or not, changes the file at the original path: that path is
\* written only by the last persisting step, after the backup save.
C10_OriginalWrittenLast ==
  [][(pc # "save_orig" /\ file_path' \in DOMAIN disk)
       => (file_path' \in DOMAIN disk' /\ disk'[file_path'] = disk[file_path'])]_vars

\* some step of main or of process_maude_file can be taken
CanStep ==
  \/ mpc = "start"
  \/ mpc = "loop" /\ pc = "idle" /\ idx > Len(files_to_process)
  \/ Calling /\ validate_maude_file(disk, Current) # "ok"
  \/ Calling /\ validate_maude_file(disk, Current) = "ok"
       /\ \/ RaisesOnValues(ReadExcel(disk[Current]))
          \/ NoValues(ReadExcel(disk[Current]))
          \/ NewColumns(ReadExcel(disk[Current])) = <<>>
          \/ NewColumns(ReadExcel(disk[Current])) # <<>>
  \/ mpc = "loop" /\ Saving

\* C4 (as amended): when main gets a list of files to process (the argument
\* names an existing file, or the scan finds files) every file of the list is
\* attempted once, in the order of the list, whatever the earlier files did,
\* and the run ends with a summary whose processed count is the length of the
\* list and whose successful and failed counts add up to it; when the
\* argument names no file, or the scan finds none, main says so and ends with
\* no file attempted and no summary.
C4_BatchSummary ==
  /\ mpc = "loop" =>
       /\ idx <= Len(files_to_process) + 1
       /\ Len(attempts) = (IF pc = "idle" THEN idx - 1 ELSE idx)
       /\ Len(outcomes) = idx - 1
       /\ attempts = SubSeq(files_to_process, 1, Len(attempts))
       /\ successful = Cardinality({i \in 1..Len(outcomes) :
                                      outcomes[i] \in {"processed", "nothing_new"}})
  /\ mpc = "done" /\ report.kind = "summary" =>
       /\ files_to_process # <<>>
       /\ attempts = files_to_process
       /\ Len(outcomes) = Len(files_to_process)
       /\ report.processed = Len(files_to_process)
       /\ report.successful + report.failed = report.processed
       /\ report.successful = successful
  /\ mpc = "done" /\ report.kind # "summary" =>
       /\ attempts = <<>>
       /\ \/ report.kind = "file_not_found" /\ argv # <<>> /\ argv[1] \notin DOMAIN disk
          \/ report.kind = "no_files" /\ argv = <<>>
                /\ find_maude_files(disk, globIgnoresCase) = {}
  /\ mpc = "done" /\ argv # <<>> /\ argv[1] \in DOMAIN disk => report.kind = "summary"
  /\ mpc = "done" /\ argv = <<>> /\ find_maude_files(disk, globIgnoresCase) # {}
       => report.kind = "summary"
  /\ mpc # "done" => CanStep

Failure == {"not_found", "not_excel", "error", "no_sheet", "no_columns", "no_values"}

\* a batch whose first file failed and whose second file was processed
C4_Witness ==
  /\ mpc = "done" /\ report.kind = "summary"
  /\ Len(files_to_process) >= 2
  /\ outcomes[1] \in Failure /\ outcomes[2] = "processed"
  /\ report.successful = 1

\* C4 (as claimed): every invocation with a list of files, also the single
\* path of an argument that names a missing file, attempts each file once
\* and ends with a summary that counts them.
C4_AlwaysSummary ==
  mpc = "done" /\ (argv # <<>> \/ files_to_process # <<>>) =>
    /\ report.kind = "summary"
    /\ report.processed = Len(attempts)
    /\ report.successful + report.failed = report.processed
    /\ argv # <<>> => attempts = argv

====
